---- MODULE Spec2Model ----
(***************************************************************************)
(* Screen-space clustering of the MapChart component                       *)
(* (src/app/components/MapChart.tsx; src/unnamed/part_001 is a             *)
(* near-identical copy of the same component).                             *)
(*                                                                         *)
(* Units.  Geographic coordinates are integers in units of 1e-4 degree/60  *)
(* (60 = lcm(1..6), so that the arithmetic mean of up to six point         *)
(* coordinates is again an integer).  Screen coordinates and distances are *)
(* integers in tenths of a pixel.  JavaScript numbers that are not finite  *)
(* (NaN, +Infinity, -Infinity) are modelled explicitly.                    *)
(***************************************************************************)
EXTENDS Integers, Sequences, FiniteSets, TLC

VARIABLES
    rawData,        \* the input points (MapChart.tsx:170)
    clusterRadius,  \* the radius in pixels (MapChart.tsx:198)
    viewState,      \* React state: the camera (MapChart.tsx:193)
    clusters,       \* the memoised entity list of the last render (MapChart.tsx:197)
    uf,             \* parent array of the UnionFind of the last pass (MapChart.tsx:220)
    rendered,       \* TRUE when the last state change has been rendered
    mounted,        \* TRUE once the component has rendered for the first time
    hist            \* history variable: the inputs and the result of one earlier pass

vars == <<rawData, clusterRadius, viewState, clusters, uf, rendered, mounted, hist>>

(***************************************************************************)
(* Bounds of the model.                                                    *)
(***************************************************************************)
MaxPoints == 3        \* longest generic point list
MaxStatusPoints == 3  \* longest point list of the status family
ZoomOut == 1          \* how far below the initial zoom the user may zoom out
ZoomIn == 3           \* how far above the initial zoom the user may zoom in
MaxUF == 4            \* largest size of a UnionFind driven directly

(***************************************************************************)
(* Program constants.                                                      *)
(***************************************************************************)
ClusterRadius == 50            \* MapChart.tsx:198
InitialZoom == 13              \* MapChart.tsx:189
MaxClickZoom == 16             \* MapChart.tsx:352
InnerWidth == 12800            \* window.innerWidth, tenths of a pixel
InnerHeight == 7200            \* window.innerHeight, tenths of a pixel
\* Web-Mercator scale at zoom 13 and latitude 37.77: 512 * 2^13 / 360 =
\* 11650.8 px per degree of longitude, and 11650.8 / cos(37.77 deg) =
\* 14740 px per degree of latitude; here in 1e-3 px per 1e-4 degree.
LonScale == 1165
LatScale == 1474
HalfTurn == 2 * 90             \* a bearing of 180 degrees
GeoUnit == 3 * 4 * 5           \* geographic units per 1e-4 degree
InitialLongitude == -1224194 * GeoUnit  \* -122.4194 degrees, MapChart.tsx:187
InitialLatitude == 377749 * GeoUnit     \* 37.7749 degrees, MapChart.tsx:188

(***************************************************************************)
(* JavaScript numbers: finite integers, NaN and the two infinities.        *)
(***************************************************************************)
Fin(v) == [k |-> "fin", v |-> v]
NaN == [k |-> "nan", v |-> 0]
PosInf == [k |-> "inf", v |-> 1]
NegInf == [k |-> "inf", v |-> -1]

Sign(v) == IF v > 0 THEN 1 ELSE IF v < 0 THEN -1 ELSE 0

FNeg(a) == IF a.k = "nan" THEN NaN ELSE [k |-> a.k, v |-> -a.v]

FAdd(a, b) ==
    IF a.k = "nan" \/ b.k = "nan" THEN NaN
    ELSE IF a.k = "fin" /\ b.k = "fin" THEN Fin(a.v + b.v)
    ELSE IF a.k = "inf" /\ b.k = "inf" THEN (IF a.v = b.v THEN a ELSE NaN)
    ELSE IF a.k = "inf" THEN a ELSE b

FSub(a, b) == FAdd(a, FNeg(b))

FMul(a, b) ==
    IF a.k = "nan" \/ b.k = "nan" THEN NaN
    ELSE IF a.k = "fin" /\ b.k = "fin" THEN Fin(a.v * b.v)
    ELSE IF Sign(a.v) * Sign(b.v) = 0 THEN NaN
    ELSE [k |-> "inf", v |-> Sign(a.v) * Sign(b.v)]

\* a / n for a positive integer n (the group size)
FDiv(a, n) == IF a.k = "fin" THEN Fin(a.v \div n) ELSE a

\* Math.sqrt(d2) <= r, for d2 in (tenths of a pixel)^2 and r in pixels:
\* false when d2 is NaN or infinite, and false for every d2 when r < 0.
MutNoSqrt(d2, r) == d2.k = "fin" /\ d2.v <= 100 * r
MutSqrtLE(d2, r) == d2.k = "fin" /\ d2.v <= (10 * r) * (10 * r)
MutNotGreater(d2, r) == ~(d2.k = "inf" \/ (d2.k = "fin" /\ (r < 0 \/ d2.v > (10 * r) * (10 * r))))
MutSqrtLT(d2, r) == d2.k = "fin" /\ r >= 0 /\ d2.v < (10 * r) * (10 * r)
SqrtLE(d2, r) == d2.k = "fin" /\ r >= 0 /\ d2.v <= (10 * r) * (10 * r)

(***************************************************************************)
(* WebMercatorViewport.project at pitch 0 and bearing 0: a translation to  *)
(* the screen centre and a scaling by 2^zoom (linearised around the        *)
(* initial latitude).  A point with a NaN or infinite coordinate projects  *)
(* to NaN in both screen coordinates (the homogeneous divide of the        *)
(* projection spreads the non-finite value to both).                       *)
(***************************************************************************)
RECURSIVE Pow2(_)
Pow2(n) == IF n <= 0 THEN 1 ELSE 2 * Pow2(n - 1)

\* d geographic units at the given zoom, in tenths of a pixel
Scaled(d, scale, zoom) ==
    IF zoom >= InitialZoom
    THEN (d * scale * Pow2(zoom - InitialZoom)) \div (100 * GeoUnit)
    ELSE (d * scale) \div (100 * GeoUnit * Pow2(InitialZoom - zoom))

\* the map is drawn upright (bearing 0) or turned half a circle (bearing 180)
Turn(vs) == IF vs.bearing = HalfTurn THEN -1 ELSE 1

project(vs, lon, lat) ==
    LET dLon == FSub(lon, vs.longitude)
        dLat == FSub(lat, vs.latitude)
    IN  IF dLon.k = "fin" /\ dLat.k = "fin"
        THEN [x |-> Fin(InnerWidth \div 2 + Turn(vs) * Scaled(dLon.v, LonScale, vs.zoom)),
              y |-> Fin(InnerHeight \div 2 - Turn(vs) * Scaled(dLat.v, LatScale, vs.zoom))]
        ELSE [x |-> NaN, y |-> NaN]

\* projectedPoints: every point with its index and screen coordinates
projectedPoints(data, vs) ==
    [i \in 1..Len(data) |->
        LET p == project(vs, data[i].longitude, data[i].latitude)
        IN  [index |-> i - 1, latitude |-> data[i].latitude,
             longitude |-> data[i].longitude, status |-> data[i].status,
             screenX |-> p.x, screenY |-> p.y]]

(***************************************************************************)
(* class UnionFind.  parent is a sequence; index i of the code is          *)
(* position i + 1 of the sequence, and the values are the code's indices.  *)
(***************************************************************************)
MutCarriedUnionFind(n) == IF Len(uf) = n THEN uf ELSE [i \in 1..n |-> i - 1]
NewUnionFind(n) == [i \in 1..n |-> i - 1]

\* find(i): the root of i and the parent array after path compression
RECURSIVE find(_, _)
find(parent, i) ==
    IF parent[i + 1] # i
    THEN LET r == find(parent, parent[i + 1])
         IN  [root |-> r.root, parent |-> [r.parent EXCEPT ![i + 1] = r.root]]
    ELSE [root |-> i, parent |-> parent]

MutUnionReversed(parent, i, j) ==
    LET fi == find(parent, i)
        fj == find(fi.parent, j)
    IN  IF fi.root # fj.root
        THEN [fj.parent EXCEPT ![fi.root + 1] = fj.root]
        ELSE fj.parent
MutUnionNoFind(parent, i, j) == [parent EXCEPT ![j + 1] = i]
union(parent, i, j) ==
    LET fi == find(parent, i)
        fj == find(fi.parent, j)
    IN  IF fi.root # fj.root
        THEN [fj.parent EXCEPT ![fj.root + 1] = fi.root]
        ELSE fj.parent

(***************************************************************************)
(* The pairwise pass (MapChart.tsx:221-230).                               *)
(***************************************************************************)
distance2(pp, i, j) ==
    LET dx == FSub(pp[i + 1].screenX, pp[j + 1].screenX)
        dy == FSub(pp[i + 1].screenY, pp[j + 1].screenY)
    IN  FAdd(FMul(dx, dx), FMul(dy, dy))

within(pp, i, j, radius) == SqrtLE(distance2(pp, i, j), radius)

\* the loops, from the pair (i, j) on
RECURSIVE unionPass(_, _, _, _, _)
unionPass(parent, pp, radius, i, j) ==
    LET n == Len(pp)
    IN  IF i >= n THEN parent
        ELSE IF j >= n THEN unionPass(parent, pp, radius, i + 1, i + 2)
        ELSE unionPass(IF within(pp, i, j, radius) THEN union(parent, i, j) ELSE parent,
                       pp, radius, i, j + 1)

(***************************************************************************)
(* Grouping by root (MapChart.tsx:233-240).  The result holds the parent   *)
(* array after the finds and, for each index, its root.                    *)
(***************************************************************************)
RECURSIVE MutGroupPassShort(_, _, _)
MutGroupPassShort(parent, roots, i) ==
    IF i >= Len(parent) - 1 THEN [parent |-> parent, roots |-> roots]
    ELSE LET f == find(parent, i)
         IN  MutGroupPassShort(f.parent, Append(roots, f.root), i + 1)
RECURSIVE groupPass(_, _, _)
groupPass(parent, roots, i) ==
    IF i >= Len(parent) THEN [parent |-> parent, roots |-> roots]
    ELSE LET f == find(parent, i)
         IN  groupPass(f.parent, Append(roots, f.root), i + 1)

\* the members (code indices, ascending) of the group whose key is root
RECURSIVE MutMembersFromDesc(_, _, _)
MutMembersFromDesc(roots, root, i) ==
    IF i > Len(roots) THEN <<>>
    ELSE IF roots[i] = root THEN MutMembersFromDesc(roots, root, i + 1) \o <<i - 1>>
    ELSE MutMembersFromDesc(roots, root, i + 1)
RECURSIVE membersFrom(_, _, _)
membersFrom(roots, root, i) ==
    IF i > Len(roots) THEN <<>>
    ELSE IF roots[i] = root THEN <<i - 1>> \o membersFrom(roots, root, i + 1)
    ELSE membersFrom(roots, root, i + 1)

\* Object.values(groups): groups has integer keys, which a JavaScript
\* object enumerates in ascending numeric order
RECURSIVE groupsFrom(_, _)
groupsFrom(roots, root) ==
    IF root >= Len(roots) THEN <<>>
    ELSE IF \E i \in 1..Len(roots) : roots[i] = root
    THEN <<membersFrom(roots, root, 1)>> \o groupsFrom(roots, root + 1)
    ELSE groupsFrom(roots, root + 1)

(***************************************************************************)
(* Status values.  The code keys a plain JavaScript object by the raw      *)
(* status string, so the model keeps what such an object does with its     *)
(* keys: a key that is a canonical array index ("7") is enumerated before  *)
(* all other keys, in ascending numeric order; a key that names a property *)
(* inherited from Object.prototype ("constructor") reads as that property  *)
(* until it is written.                                                    *)
(***************************************************************************)
Recognized == {"healthy", "predicted failure", "down for repairs"}
Statuses == Recognized \cup {"offline", "7", "constructor"}

\* the array index a key denotes, or -1
ArrayIndex(s) == IF s = "7" THEN 7 ELSE -1
InheritedKeys == {"constructor"}

getMarkerColor(status) ==
    CASE status = "healthy" -> <<0, 192, 0>>
      [] status = "predicted failure" -> <<255, 255, 128>>
      [] status = "down for repairs" -> <<235, 52, 52>>
      [] OTHER -> <<40, 171, 160>>

getStatusColorString(status) ==
    CASE status = "healthy" -> "green"
      [] status = "predicted failure" -> "yellow"
      [] status = "down for repairs" -> "red"
      [] OTHER -> "teal"

(***************************************************************************)
(* statusCounts: a sequence of entries in Object.keys order.  An entry is  *)
(* [key, num, count]: with num the value is the number count; without, the *)
(* value is a string (the text of the inherited function followed by count *)
(* characters "1"), which is what (f || 0) + 1 gives for a function f.     *)
(***************************************************************************)
HasKey(sc, s) == \E e \in 1..Len(sc) : sc[e].key = s
KeyPos(sc, s) == CHOOSE e \in 1..Len(sc) : sc[e].key = s

\* where a new key goes in the enumeration order
RECURSIVE InsertKey(_, _)
InsertKey(sc, entry) ==
    IF sc = <<>> THEN <<entry>>
    ELSE IF ArrayIndex(entry.key) >= 0
            /\ (ArrayIndex(sc[1].key) < 0 \/ ArrayIndex(sc[1].key) > ArrayIndex(entry.key))
    THEN <<entry>> \o sc
    ELSE <<sc[1]>> \o InsertKey(Tail(sc), entry)

MutCountUnknown(sc, status) ==
    LET s == IF status \in Recognized THEN status ELSE "unknown"
    IN  IF HasKey(sc, s)
        THEN [sc EXCEPT ![KeyPos(sc, s)].count = @ + 1]
        ELSE Append(sc, [key |-> s, num |-> TRUE, count |-> 1])
\* statusCounts[status] = (statusCounts[status] || 0) + 1
countStatus(sc, status) ==
    IF HasKey(sc, status)
    THEN [sc EXCEPT ![KeyPos(sc, status)].count = @ + 1]
    ELSE InsertKey(sc, [key |-> status, num |-> status \notin InheritedKeys, count |-> 1])

RECURSIVE statusCountsOf(_, _, _)
statusCountsOf(pp, group, sc) ==
    IF group = <<>> THEN sc
    ELSE statusCountsOf(pp, Tail(group), countStatus(sc, pp[group[1] + 1].status))

\* the Object.keys(statusCounts).forEach loop; st is [dominantStatus, maxCount]
updateDominant(st, entry) ==
    IF entry.num /\ entry.count > st.maxCount
    THEN [dominantStatus |-> entry.key, maxCount |-> entry.count]
    ELSE st

RECURSIVE dominantLoop(_, _)
dominantLoop(st, sc) ==
    IF sc = <<>> THEN st
    ELSE dominantLoop(updateDominant(st, sc[1]), Tail(sc))

dominantStatusOf(pp, group, sc) ==
    dominantLoop([dominantStatus |-> pp[group[1] + 1].status, maxCount |-> 0], sc).dominantStatus

(***************************************************************************)
(* Entity assembly (MapChart.tsx:243-280).                                 *)
(***************************************************************************)
RECURSIVE sumOf(_, _, _)
sumOf(pp, group, field) ==
    IF group = <<>> THEN Fin(0)
    ELSE FAdd(sumOf(pp, SubSeq(group, 1, Len(group) - 1), field),
              IF field = "latitude" THEN pp[group[Len(group)] + 1].latitude
              ELSE pp[group[Len(group)] + 1].longitude)

\* group.map((p) => p.index).join("-")
RECURSIVE joinIndices(_)
joinIndices(group) ==
    IF Len(group) = 1 THEN ToString(group[1])
    ELSE ToString(group[1]) \o "-" \o joinIndices(Tail(group))

\* members is a ghost field: the indices folded into the entity
entityOf(pp, group) ==
    IF Len(group) = 1
    THEN [index |-> pp[group[1] + 1].index,
          latitude |-> pp[group[1] + 1].latitude,
          longitude |-> pp[group[1] + 1].longitude,
          status |-> pp[group[1] + 1].status,
          screenX |-> pp[group[1] + 1].screenX,
          screenY |-> pp[group[1] + 1].screenY,
          isCluster |-> FALSE,
          members |-> group]
    ELSE LET sc == statusCountsOf(pp, group, <<>>)
         IN  [id |-> "cluster-" \o joinIndices(group),
              latitude |-> FDiv(sumOf(pp, group, "latitude"), Len(group)),
              longitude |-> FDiv(sumOf(pp, group, "longitude"), Len(group)),
              statusCounts |-> sc,
              count |-> Len(group),
              dominantStatus |-> dominantStatusOf(pp, group, sc),
              isCluster |-> TRUE,
              members |-> group]

(***************************************************************************)
(* The useMemo body (MapChart.tsx:197-283): the entity list, and the       *)
(* parent array the pass leaves behind.                                    *)
(***************************************************************************)
clustersPass(data, vs, radius) ==
    LET pp == projectedPoints(data, vs)
        n == Len(pp)
    IN  IF n = 0 THEN [clusteredData |-> <<>>, parent |-> <<>>, groups |-> <<>>]
        ELSE LET united == unionPass(NewUnionFind(n), pp, radius, 0, 1)
                 g == groupPass(united, <<>>, 0)
                 groups == groupsFrom(g.roots, 0)
             IN  [clusteredData |-> [e \in 1..Len(groups) |-> entityOf(pp, groups[e])],
                  parent |-> g.parent,
                  groups |-> groups]

(***************************************************************************)
(* Inputs.                                                                 *)
(***************************************************************************)
Point(lon, lat, status) == [longitude |-> lon, latitude |-> lat, status |-> status]

\* testData (MapChart.tsx:96-127), in geographic units
testData ==
    << Point(Fin(-1224194 * GeoUnit), Fin(377749 * GeoUnit), "healthy"),
       Point(Fin(-1224190 * GeoUnit), Fin(377740 * GeoUnit), "healthy"),
       Point(Fin(-1224185 * GeoUnit), Fin(377735 * GeoUnit), "healthy"),
       Point(Fin(-1224180 * GeoUnit), Fin(377720 * GeoUnit), "predicted failure"),
       Point(Fin(-1224175 * GeoUnit), Fin(377700 * GeoUnit), "predicted failure"),
       Point(Fin(-1224170 * GeoUnit), Fin(377680 * GeoUnit), "down for repairs") >>

initialViewState ==
    [longitude |-> Fin(InitialLongitude), latitude |-> Fin(InitialLatitude),
     zoom |-> InitialZoom, pitch |-> 0, bearing |-> 0]

\* generic positions: a row of three points 30e-4 degrees apart (35 px at
\* zoom 13), one point 30e-4 degrees north of the first (44 px), a point
\* with NaN coordinates and a point with an infinite longitude
Step == 30 * GeoUnit
Positions ==
    { <<Fin(InitialLongitude), Fin(InitialLatitude)>>,
      <<Fin(InitialLongitude + Step), Fin(InitialLatitude)>>,
      <<Fin(InitialLongitude + 2 * Step), Fin(InitialLatitude)>>,
      <<Fin(InitialLongitude), Fin(InitialLatitude + Step)>>,
      <<NaN, NaN>>,
      <<PosInf, Fin(InitialLatitude)>> }

GeoPoints == { Point(p[1], p[2], "healthy") : p \in Positions }

\* the status family: two positions, and statuses that are recognized,
\* unrecognized, integer-like and inherited
StatusPool == {"healthy", "down for repairs", "offline", "7", "constructor"}
StatusPoints ==
    { Point(Fin(InitialLongitude + d), Fin(InitialLatitude), s) : d \in {0, Step}, s \in StatusPool }

SeqsUpTo(S, n) == UNION { [1..m -> S] : m \in 0..n }

Radii == {-ClusterRadius, 0, ClusterRadius, 2 * ClusterRadius}
ZoomLevels == (InitialZoom - ZoomOut)..(InitialZoom + ZoomIn)
PassZooms == {InitialZoom - 1, InitialZoom, InitialZoom + 1}

\* the point lists of the reactive specification: the built-in data and a
\* sparse pair that merges only when zoomed out
ReactiveData ==
    { testData,
      << Point(Fin(InitialLongitude), Fin(InitialLatitude), "healthy"),
         Point(Fin(InitialLongitude + 2 * Step), Fin(InitialLatitude), "offline") >> }

\* a chain of three points given out of order (the middle one last, so the
\* root of their set is not its smallest index) and a far pair at one place
chainAndPair ==
    << Point(Fin(InitialLongitude), Fin(InitialLatitude), "healthy"),
       Point(Fin(InitialLongitude + 2 * Step), Fin(InitialLatitude), "healthy"),
       Point(Fin(InitialLongitude + Step), Fin(InitialLatitude), "offline"),
       Point(Fin(InitialLongitude), Fin(InitialLatitude + 3 * Step), "healthy"),
       Point(Fin(InitialLongitude), Fin(InitialLatitude + 3 * Step), "down for repairs") >>

NoHist == [set |-> FALSE]

(***************************************************************************)
(* The component.                                                          *)
(***************************************************************************)
Init ==
    /\ rawData \in ReactiveData
    /\ clusterRadius = ClusterRadius
    /\ viewState = initialViewState
    /\ clusters = <<>>
    /\ uf = <<>>
    /\ rendered = FALSE
    /\ mounted = FALSE
    /\ hist = NoHist

\* the dependency check of useMemo(..., [rawData, viewState]): rawData is
\* built anew by every render (MapChart.tsx:170), so it never compares equal
\* to the array of the previous render and the body always runs
MutDepsEmpty == ~mounted
depsChanged == TRUE

\* the two lists handed to the rendering layers (MapChart.tsx:286-287)
RECURSIVE filterEntities(_, _)
filterEntities(ents, isCluster) ==
    IF ents = <<>> THEN <<>>
    ELSE IF ents[1].isCluster = isCluster
    THEN <<ents[1]>> \o filterEntities(Tail(ents), isCluster)
    ELSE filterEntities(Tail(ents), isCluster)
individualPoints == filterEntities(clusters, FALSE)
clusterPoints == filterEntities(clusters, TRUE)

\* a render: the useMemo body runs and its result replaces clusters
Render ==
    /\ ~rendered
    /\ LET r == IF depsChanged
                THEN clustersPass(rawData, viewState, clusterRadius)
                ELSE [clusteredData |-> clusters, parent |-> uf]
       IN  /\ clusters' = r.clusteredData
           /\ uf' = r.parent
           /\ hist' \in IF hist.set
                        THEN {[hist EXCEPT !.other = @ \/ viewState # hist.viewState]}
                        ELSE {hist, [set |-> TRUE, other |-> FALSE, viewState |-> viewState,
                                     clusters |-> r.clusteredData]}
    /\ rendered' = TRUE
    /\ mounted' = TRUE
    /\ UNCHANGED <<rawData, clusterRadius, viewState>>

\* DeckGL onViewStateChange: the user pans or zooms (MapChart.tsx:319)
PanCentres ==
    { <<Fin(InitialLongitude), Fin(InitialLatitude)>>,
      <<Fin(InitialLongitude + Step), Fin(InitialLatitude - Step)>> }

OnViewStateChange ==
    /\ mounted
    /\ \E z \in ZoomLevels, c \in PanCentres :
          viewState' = [viewState EXCEPT !.zoom = z, !.longitude = c[1], !.latitude = c[2]]
    /\ rendered' = FALSE
    /\ UNCHANGED <<rawData, clusterRadius, clusters, uf, mounted, hist>>

Min(a, b) == IF a <= b THEN a ELSE b

MutClickKeepCentre ==
    /\ mounted
    /\ \E c \in 1..Len(clusters) :
          /\ clusters[c].isCluster
          /\ viewState' = [viewState EXCEPT !.zoom = Min(viewState.zoom + 1, MaxClickZoom)]
    /\ rendered' = FALSE
    /\ UNCHANGED <<rawData, clusterRadius, clusters, uf, mounted, hist>>

\* onClick of a cluster overlay of the last render (MapChart.tsx:348-356)
ClickCluster ==
    /\ mounted
    /\ \E c \in 1..Len(clusters) :
          /\ clusters[c].isCluster
          /\ viewState' = [viewState EXCEPT !.zoom = Min(viewState.zoom + 1, MaxClickZoom),
                                            !.longitude = clusters[c].longitude,
                                            !.latitude = clusters[c].latitude]
    /\ rendered' = FALSE
    /\ UNCHANGED <<rawData, clusterRadius, clusters, uf, mounted, hist>>

\* onHover of the icon layer: setHoverInfo causes a render (MapChart.tsx:305)
OnHover ==
    /\ mounted
    /\ rendered
    /\ rendered' = FALSE
    /\ UNCHANGED <<rawData, clusterRadius, viewState, clusters, uf, mounted, hist>>

Next == Render \/ OnViewStateChange \/ ClickCluster \/ OnHover

Spec == Init /\ [][Next]_vars

(***************************************************************************)
(* Clicks on cluster overlays (MapChart.tsx:333-357), starting from the    *)
(* first render on a view state that earlier panning, zooming and turning  *)
(* of the map may have left.  React runs every render that a state update  *)
(* has scheduled: RenderFair is WF_vars(Render) with ENABLED <<Render>>_vars *)
(* written out as the guard of Render, ~rendered.                          *)
(***************************************************************************)
Bearings == {0, HalfTurn}

InitClick ==
    /\ rawData \in ReactiveData
    /\ clusterRadius = ClusterRadius
    /\ \E z \in ZoomLevels, c \in PanCentres, b \in Bearings :
          viewState = [initialViewState EXCEPT !.zoom = z, !.longitude = c[1],
                                               !.latitude = c[2], !.bearing = b]
    /\ clusters = <<>>
    /\ uf = <<>>
    /\ rendered = FALSE
    /\ mounted = FALSE
    /\ hist = NoHist

NextClick == Render \/ ClickCluster

RenderFair == ([]<>rendered) \/ ([]<><<Render>>_vars)

SpecClick == InitClick /\ [][NextClick]_vars /\ RenderFair

(***************************************************************************)
(* The pass as a function of its inputs: every point list, viewport and    *)
(* radius of the bounded families, one render.                             *)
(***************************************************************************)
InitPass ==
    /\ \/ /\ rawData \in SeqsUpTo(GeoPoints, MaxPoints)
          /\ clusterRadius \in Radii
          /\ \E z \in PassZooms : viewState = [initialViewState EXCEPT !.zoom = z]
       \/ /\ rawData \in SeqsUpTo(StatusPoints, MaxStatusPoints)
          /\ clusterRadius = ClusterRadius
          /\ \E z \in {InitialZoom, InitialZoom + 1} :
                viewState = [initialViewState EXCEPT !.zoom = z]
       \/ /\ rawData \in {testData, chainAndPair}
          /\ clusterRadius \in Radii
          /\ \E z \in ZoomLevels : viewState = [initialViewState EXCEPT !.zoom = z]
    /\ clusters = <<>>
    /\ uf = <<>>
    /\ rendered = FALSE
    /\ mounted = FALSE
    /\ hist = NoHist

\* one pass, nothing recorded
NextPass == Render /\ hist' = hist

SpecPass == InitPass /\ [][NextPass]_vars

(***************************************************************************)
(* The UnionFind class on its own (MapChart.tsx:138-162): an instance of   *)
(* any size 1..MaxUF and any sequence of union and find calls on its       *)
(* indices.  hist records the last call, the parent array before it, what  *)
(* find returned, and whether some union so far has merged two sets, the   *)
(* first given by an index that was not its root, next to a third set.     *)
(***************************************************************************)
UFInit ==
    /\ \E n \in 1..MaxUF : uf = NewUnionFind(n)
    /\ hist = [op |-> "new", i |-> 0, j |-> 0, before |-> uf, ret |-> 0, merged |-> FALSE]
    /\ rawData = <<>>
    /\ clusterRadius = ClusterRadius
    /\ viewState = initialViewState
    /\ clusters = <<>>
    /\ rendered = FALSE
    /\ mounted = FALSE

UFFind ==
    /\ \E i \in 0..(Len(uf) - 1) :
          LET r == find(uf, i)
          IN  /\ uf' = r.parent
              /\ hist' = [op |-> "find", i |-> i, j |-> i, before |-> uf, ret |-> r.root,
                          merged |-> hist.merged]
    /\ UNCHANGED <<rawData, clusterRadius, viewState, clusters, rendered, mounted>>

UFUnion ==
    /\ \E i, j \in 0..(Len(uf) - 1) :
          LET ri == find(uf, i).root
              rj == find(uf, j).root
          IN  /\ uf' = union(uf, i, j)
              /\ hist' = [op |-> "union", i |-> i, j |-> j, before |-> uf, ret |-> 0,
                          merged |-> \/ hist.merged
                                     \/ /\ ri # rj
                                        /\ ri # i
                                        /\ \E x \in 0..(Len(uf) - 1) :
                                              find(uf, x).root \notin {ri, rj}]
    /\ UNCHANGED <<rawData, clusterRadius, viewState, clusters, rendered, mounted>>

UFNext == UFFind \/ UFUnion

SpecUF == UFInit /\ [][UFNext]_vars

(***************************************************************************)
(* Vocabulary of the properties.                                           *)
(***************************************************************************)
Indices == 0..(Len(rawData) - 1)
Screen == projectedPoints(rawData, viewState)
Range(f) == { f[k] : k \in DOMAIN f }
MemberSet(e) == IF e.isCluster THEN Range(e.members) ELSE {e.index}
EntityGroups(ents) == { MemberSet(ents[e]) : e \in 1..Len(ents) }
SameGroup(i, j) == \E e \in 1..Len(clusters) : {i, j} \subseteq MemberSet(clusters[e])
Max(a, b) == IF a >= b THEN a ELSE b

\* an edge of the proximity graph
Edge(pp, i, j, radius) == i # j /\ within(pp, Min(i, j), Max(i, j), radius)

\* the connected component of the proximity graph that holds the set S
RECURSIVE Component(_, _, _)
Component(S, pp, radius) ==
    LET T == S \cup { j \in 0..(Len(pp) - 1) : \E i \in S : Edge(pp, i, j, radius) }
    IN  IF T = S THEN S ELSE Component(T, pp, radius)

\* C1: after a pass the member sets of the entities partition the input
\* indices: every index lies in exactly one entity, a Single holds one
\* index, a Cluster holds at least two different ones, and no entity
\* holds an index that is not an input index.
C1_Partition ==
    rendered =>
        /\ \A i \in Indices :
              Cardinality({ e \in 1..Len(clusters) : i \in MemberSet(clusters[e]) }) = 1
        /\ \A e \in 1..Len(clusters) :
              /\ MemberSet(clusters[e]) \subseteq Indices
              /\ clusters[e].isCluster =>
                    /\ Len(clusters[e].members) >= 2
                    /\ Cardinality(MemberSet(clusters[e])) = Len(clusters[e].members)
                    /\ clusters[e].count = Len(clusters[e].members)

C1_Witness ==
    /\ rendered
    /\ Len(rawData) >= 3
    /\ \E e \in 1..Len(clusters) : clusters[e].isCluster
    /\ \E e \in 1..Len(clusters) : ~clusters[e].isCluster

\* C2: after a pass two points are in the same entity exactly when they are
\* in the same connected component of the graph whose edges are the pairs
\* at screen distance <= clusterRadius.
C2_Components ==
    rendered =>
        LET pp == Screen
        IN  \A i \in Indices :
                LET comp == Component({i}, pp, clusterRadius)
                IN  \A j \in Indices : SameGroup(i, j) <=> j \in comp

\* a group linked only by a chain: two of its members are not within the radius
C2_Witness ==
    /\ rendered
    /\ \E i, j \in Indices :
          /\ i # j
          /\ SameGroup(i, j)
          /\ ~Edge(Screen, i, j, clusterRadius)
    /\ \E i, j \in Indices : ~SameGroup(i, j)

\* C3: for every radius r2 >= clusterRadius, each group of the pass with
\* clusterRadius lies inside one group of the pass with r2, and at least as
\* many points are members of Cluster entities with r2.
InClusters(groups) == Cardinality(UNION { g \in groups : Cardinality(g) >= 2 })
GroupsWith(radius) ==
    { Range(g) : g \in Range(clustersPass(rawData, viewState, radius).groups) }

C3_Monotone ==
    rendered =>
        \A r2 \in Radii :
            r2 >= clusterRadius =>
                LET fine == EntityGroups(clusters)
                    coarse == GroupsWith(r2)
                IN  /\ \A g \in fine : \E h \in coarse : g \subseteq h
                    /\ InClusters(coarse) >= InClusters(fine)

\* a larger radius that merges strictly more
C3_Witness ==
    /\ rendered
    /\ \E e \in 1..Len(clusters) : clusters[e].isCluster
    /\ \E r2 \in Radii :
          /\ r2 > clusterRadius
          /\ InClusters(GroupsWith(r2)) > InClusters(EntityGroups(clusters))

\* the statuses of a cluster's members, their frequencies and first positions
StatusAt(i) == rawData[i + 1].status
MemberStatuses(members) == { StatusAt(members[k]) : k \in 1..Len(members) }
CountIn(members, s) == Cardinality({ k \in 1..Len(members) : StatusAt(members[k]) = s })
FirstPos(members, s) ==
    CHOOSE k \in 1..Len(members) :
        /\ StatusAt(members[k]) = s
        /\ \A k2 \in 1..(k - 1) : StatusAt(members[k2]) # s

\* C4: in every Cluster dominantStatus is a status of maximal frequency
\* among the members and, among the statuses of maximal frequency, the one
\* whose first member comes earliest; for any status values.
C4_DominantStatus ==
    rendered =>
        \A e \in 1..Len(clusters) :
            clusters[e].isCluster =>
                LET m == clusters[e].members
                    d == clusters[e].dominantStatus
                IN  /\ d \in MemberStatuses(m)
                    /\ \A s \in MemberStatuses(m) :
                          /\ CountIn(m, s) <= CountIn(m, d)
                          /\ CountIn(m, s) = CountIn(m, d) => FirstPos(m, d) <= FirstPos(m, s)

\* the reference inputs: the built-in points, the initial view, radius 50
ReferenceRun ==
    /\ rendered
    /\ rawData = testData
    /\ viewState = initialViewState
    /\ clusterRadius = ClusterRadius

\* C5 as written: the reference run yields one Cluster of the first three
\* points (dominantStatus healthy, memberCount 3) and three Singles.
C5_Original ==
    ReferenceRun =>
        /\ Len(clusters) = 4
        /\ \E e \in 1..4 :
              /\ clusters[e].isCluster
              /\ MemberSet(clusters[e]) = {0, 1, 2}
              /\ clusters[e].dominantStatus = "healthy"
              /\ clusters[e].count = 3
        /\ \A i \in {3, 4, 5} :
              \E e \in 1..4 : ~clusters[e].isCluster /\ clusters[e].index = i

\* C5, amended: at zoom 13 consecutive reference points are 9 to 31 px
\* apart, so the reference run yields exactly one Cluster holding all six
\* points (dominantStatus healthy, memberCount 6) and no Single.
C5_ReferenceAllMerged ==
    ReferenceRun =>
        /\ Len(clusters) = 1
        /\ clusters[1].isCluster
        /\ clusters[1].members = <<0, 1, 2, 3, 4, 5>>
        /\ clusters[1].id = "cluster-0-1-2-3-4-5"
        /\ clusters[1].dominantStatus = "healthy"
        /\ clusters[1].count = 6
        /\ clusters[1].statusCounts =
              << [key |-> "healthy", num |-> TRUE, count |-> 3],
                 [key |-> "predicted failure", num |-> TRUE, count |-> 2],
                 [key |-> "down for repairs", num |-> TRUE, count |-> 1] >>

C5_Witness == ReferenceRun /\ Len(clusters) > 0

\* two points whose projected screen coordinates are exactly equal
SameScreen(i, j) ==
    /\ Screen[i + 1].screenX.k = "fin"
    /\ Screen[i + 1].screenY.k = "fin"
    /\ Screen[i + 1].screenX = Screen[j + 1].screenX
    /\ Screen[i + 1].screenY = Screen[j + 1].screenY
Collision == \E i, j \in Indices : i # j /\ SameScreen(i, j)

\* C6 as written: the entity list of a pass with a negative radius equals
\* the entity list of the pass with radius 0.
C6_Original ==
    (rendered /\ clusterRadius < 0) =>
        clusters = clustersPass(rawData, viewState, 0).clusteredData

\* C6, amended: with a negative radius no comparison succeeds, so every
\* point is its own Single, also points at identical screen coordinates;
\* the result equals the radius-0 result exactly when no two points have
\* identical projected coordinates.
C6_NegativeRadius ==
    (rendered /\ clusterRadius < 0) =>
        /\ Len(clusters) = Len(rawData)
        /\ \A e \in 1..Len(clusters) : ~clusters[e].isCluster /\ clusters[e].index = e - 1
        /\ (clusters = clustersPass(rawData, viewState, 0).clusteredData) <=> ~Collision

C6_Witness ==
    /\ rendered
    /\ clusterRadius < 0
    /\ Collision
    /\ Len(clusters) >= 3

\* C7: with radius 0 two points are in the same entity exactly when their
\* projected screen coordinates are exactly equal; so pairwise different
\* coordinates give only Singles, and equal coordinates give a Cluster.
C7_ZeroRadius ==
    (rendered /\ clusterRadius = 0) =>
        /\ \A i, j \in Indices : i # j => (SameGroup(i, j) <=> SameScreen(i, j))
        /\ ~Collision => \A e \in 1..Len(clusters) : ~clusters[e].isCluster
        /\ Collision => \E e \in 1..Len(clusters) : clusters[e].isCluster

C7_Witness ==
    /\ rendered
    /\ clusterRadius = 0
    /\ \E e \in 1..Len(clusters) : clusters[e].isCluster
    /\ \E e \in 1..Len(clusters) : ~clusters[e].isCluster

\* C8: a pass whose inputs equal those of an earlier pass (the recorded
\* one) gives the same entity list as that pass gave: same partition, same
\* variants, same id, count, statusCounts and dominantStatus, whatever
\* passes ran in between.
C8_Deterministic ==
    (rendered /\ hist.set /\ hist.viewState = viewState) => clusters = hist.clusters

\* the recorded inputs are rendered again after a pass on other inputs
C8_Witness ==
    /\ rendered
    /\ hist.set
    /\ hist.other
    /\ hist.viewState = viewState
    /\ \E e \in 1..Len(clusters) : clusters[e].isCluster

\* a point with a NaN or infinite coordinate, and the input without it
NonFinite(i) == rawData[i + 1].longitude.k # "fin" \/ rawData[i + 1].latitude.k # "fin"
Without(i) == [k \in 1..(Len(rawData) - 1) |-> IF k <= i THEN rawData[k] ELSE rawData[k + 1]]
Renumber(g, i) == { IF x < i THEN x ELSE x + 1 : x \in g }

C10_Original ==
    rendered =>
        \A e \in 1..Len(clusters) :
            clusters[e].isCluster =>
                LET m == clusters[e].members
                    sc == clusters[e].statusCounts
                    U == { k \in 1..Len(m) : StatusAt(m[k]) \notin Recognized }
                IN  U # {} =>
                        /\ \A k \in U : ~HasKey(sc, StatusAt(m[k]))
                        /\ HasKey(sc, "unknown")
                        /\ sc[KeyPos(sc, "unknown")].count = Cardinality(U)

\* C10, amended: the pass never renames a status.  A Single keeps its raw
\* status; every key of a Cluster's statusCounts and its dominantStatus are
\* raw statuses of its members; every raw status of a member that is not the
\* name of a property inherited from Object.prototype has its own key, whose
\* count is the number of members with that status.  Only the colour lookup
\* treats all unrecognized values alike (the default colour).
C10_RawStatusKeys ==
    rendered =>
        \A e \in 1..Len(clusters) :
            IF clusters[e].isCluster
            THEN LET m == clusters[e].members
                     sc == clusters[e].statusCounts
                 IN  /\ \A k \in 1..Len(sc) : sc[k].key \in MemberStatuses(m)
                     /\ clusters[e].dominantStatus \in MemberStatuses(m)
                     /\ \A s \in MemberStatuses(m) \ InheritedKeys :
                           /\ HasKey(sc, s)
                           /\ sc[KeyPos(sc, s)].num
                           /\ sc[KeyPos(sc, s)].count = CountIn(m, s)
            ELSE /\ clusters[e].status = StatusAt(clusters[e].index)
                 /\ clusters[e].status \notin Recognized =>
                       /\ getMarkerColor(clusters[e].status) = <<40, 171, 160>>
                       /\ getStatusColorString(clusters[e].status) = "teal"

\* a Cluster with two different unrecognized statuses
C10_Witness ==
    /\ rendered
    /\ \E e \in 1..Len(clusters) :
          /\ clusters[e].isCluster
          /\ Cardinality(MemberStatuses(clusters[e].members) \ Recognized) >= 2

\* C11: once the render that follows a sequence of view-state changes has
\* run, the entity list, and the two lists handed to the rendering layers,
\* are those of a fresh pass on the current points and the current view
\* state: nothing of an earlier pass survives.
C11_FreshAfterRender ==
    rendered =>
        LET fresh == clustersPass(rawData, viewState, clusterRadius).clusteredData
        IN  /\ clusters = fresh
            /\ individualPoints = filterEntities(fresh, FALSE)
            /\ clusterPoints = filterEntities(fresh, TRUE)
            /\ Len(individualPoints) + Len(clusterPoints) = Len(fresh)

\* rendered again on another view state, with a result that differs from
\* the recorded earlier one
C11_Witness ==
    /\ rendered
    /\ hist.set
    /\ hist.viewState # viewState
    /\ hist.clusters # clusters
    /\ clusterPoints # <<>>
    /\ individualPoints # <<>>

\* the sum of the numeric values of a statusCounts object
RECURSIVE SumCounts(_)
SumCounts(sc) ==
    IF sc = <<>> THEN 0
    ELSE (IF sc[1].num THEN sc[1].count ELSE 0) + SumCounts(Tail(sc))

\* C12: every group of the partition yields exactly one entity; a group of
\* one yields a Single wrapping that point, a larger group a Cluster whose
\* count is the group size and whose statusCounts maps each status of a
\* member to the number of members having it (numbers that are never 0 and
\* sum to the count); a single input point yields one Single.
C12_EntityPerGroup ==
    rendered =>
        LET pp == Screen
            comps == { Component({i}, pp, clusterRadius) : i \in Indices }
        IN  /\ EntityGroups(clusters) = comps
            /\ Len(clusters) = Cardinality(comps)
            /\ Len(rawData) = 1 => Len(clusters) = 1 /\ ~clusters[1].isCluster
            /\ \A e \in 1..Len(clusters) :
                  IF clusters[e].isCluster
                  THEN LET m == clusters[e].members
                           sc == clusters[e].statusCounts
                       IN  /\ Len(m) >= 2
                           /\ clusters[e].count = Len(m)
                           /\ \A k \in 1..Len(sc) :
                                 /\ sc[k].key \in MemberStatuses(m)
                                 /\ sc[k].num
                                 /\ sc[k].count > 0
                           /\ \A s \in MemberStatuses(m) :
                                 /\ HasKey(sc, s)
                                 /\ sc[KeyPos(sc, s)].count = CountIn(m, s)
                           /\ SumCounts(sc) = clusters[e].count
                  ELSE /\ Cardinality(MemberSet(clusters[e])) = 1
                       /\ clusters[e].status = StatusAt(clusters[e].index)
                       /\ clusters[e].latitude = rawData[clusters[e].index + 1].latitude
                       /\ clusters[e].longitude = rawData[clusters[e].index + 1].longitude

\* the decimal indices of a set, ascending, joined by "-"
SetMin(S) == CHOOSE x \in S : \A y \in S : x <= y
RECURSIVE AscJoin(_)
AscJoin(S) ==
    IF S \ {SetMin(S)} = {} THEN ToString(SetMin(S))
    ELSE ToString(SetMin(S)) \o "-" \o AscJoin(S \ {SetMin(S)})

\* C13: the id of a Cluster is "cluster-" followed by the indices of
\* exactly its members (the connected component of its points) in ascending
\* order, joined by "-", whichever index is the root of the set; so the id
\* is a function of the member set and two Clusters of one pass never
\* share an id.
C13_ClusterId ==
    rendered =>
        LET pp == Screen
        IN  /\ \A e \in 1..Len(clusters) :
                  clusters[e].isCluster =>
                      /\ clusters[e].id = "cluster-" \o AscJoin(MemberSet(clusters[e]))
                      /\ clusters[e].id =
                            "cluster-" \o AscJoin(Component({clusters[e].members[1]}, pp, clusterRadius))
            /\ \A e1, e2 \in 1..Len(clusters) :
                  (e1 # e2 /\ clusters[e1].isCluster /\ clusters[e2].isCluster)
                      => clusters[e1].id # clusters[e2].id

\* two Clusters in one pass, one of them with a root that is not its
\* smallest index
C13_Witness ==
    /\ rendered
    /\ \E e1, e2 \in 1..Len(clusters) :
          /\ e1 # e2
          /\ clusters[e1].isCluster
          /\ clusters[e2].isCluster
          /\ uf[clusters[e1].members[1] + 1] # clusters[e1].members[1]

\* the root of x in a parent array, by following parents without rewriting
\* any; -1 when no root is met within Len(p) steps (a cycle)
RECURSIVE Walk(_, _, _)
Walk(p, x, k) ==
    IF p[x + 1] = x THEN x
    ELSE IF k = 0 THEN -1
    ELSE Walk(p, p[x + 1], k - 1)
RootOf(p, x) == Walk(p, x, Len(p))

\* C14: the parent array of a UnionFind is a forest after any sequence of
\* union and find calls on its indices; find returns the root of its
\* argument and its path compression changes no index's root; union(i, j)
\* of two different sets makes the former root of i the root of everything
\* in the two sets and leaves every other index's root alone; union inside
\* one set changes no index's root.
C14_Forest ==
    ("op" \in DOMAIN hist) =>
        LET n  == Len(uf)
            I  == 0..(n - 1)
            b  == hist.before
            ri == RootOf(b, hist.i)
            rj == RootOf(b, hist.j)
        IN  /\ \A x \in I : uf[x + 1] \in I
            /\ \A x \in I : RootOf(uf, x) # -1
            /\ \A x \in I : find(uf, x).root = RootOf(uf, x)
            /\ hist.op = "find" =>
                  /\ hist.ret = ri
                  /\ uf[hist.ret + 1] = hist.ret
                  /\ \A x \in I : RootOf(uf, x) = RootOf(b, x)
            /\ (hist.op = "union" /\ ri # rj) =>
                  \A x \in I :
                      RootOf(uf, x) = IF RootOf(b, x) \in {ri, rj} THEN ri ELSE RootOf(b, x)
            /\ (hist.op = "union" /\ ri = rj) =>
                  \A x \in I : RootOf(uf, x) = RootOf(b, x)

\* a find that rewrites a parent, in an instance where a union has merged
\* two sets, the first given by an index that was not its root, next to a
\* third set
C14_Witness ==
    /\ "op" \in DOMAIN hist
    /\ hist.op = "find"
    /\ uf # hist.before
    /\ hist.merged

\* the sum of one coordinate of the points of a set of indices
RECURSIVE SumOver(_, _)
SumOver(S, coord) ==
    IF S = {} THEN 0
    ELSE LET m == SetMin(S)
         IN  (IF coord = "longitude" THEN rawData[m + 1].longitude.v
              ELSE rawData[m + 1].latitude.v) + SumOver(S \ {m}, coord)

\* the view state is centred on the mean position of the members of e
CentredOn(vs, e) ==
    /\ vs.longitude.k = "fin"
    /\ vs.latitude.k = "fin"
    /\ vs.longitude.v * Cardinality(MemberSet(e)) = SumOver(MemberSet(e), "longitude")
    /\ vs.latitude.v * Cardinality(MemberSet(e)) = SumOver(MemberSet(e), "latitude")

ClickEffect ==
    ClickCluster =>
        /\ viewState'.zoom = IF viewState.zoom + 1 <= 16 THEN viewState.zoom + 1 ELSE 16
        /\ \E c \in 1..Len(clusters) : clusters[c].isCluster /\ CentredOn(viewState', clusters[c])
        /\ viewState'.pitch = viewState.pitch
        /\ viewState'.bearing = viewState.bearing
        /\ rawData' = rawData
        /\ ~rendered'

PassEffect ==
    (~rendered /\ rendered') =>
        clusters' = clustersPass(rawData', viewState', clusterRadius').clusteredData

\* C15: a click on a cluster overlay sets the zoom to min(zoom + 1, 16) and
\* the centre to the mean position of the clicked cluster's members, keeps
\* pitch and bearing, keeps the point set, and leaves a render pending; the
\* pending render happens, and it is a clustering pass on the view state
\* the click has set.
C15_ClickZoomsIn ==
    /\ [][ClickEffect /\ PassEffect]_vars
    /\ (~rendered ~> rendered)

\* the state a click leaves: a turned map at the zoom cap, centred on a
\* cluster of the last pass where no pan can put it, a render pending
C15_Witness ==
    /\ mounted
    /\ ~rendered
    /\ viewState.bearing = HalfTurn
    /\ viewState.zoom = MaxClickZoom
    /\ <<viewState.longitude, viewState.latitude>> \notin PanCentres
    /\ \E c \in 1..Len(clusters) : clusters[c].isCluster /\ CentredOn(viewState, clusters[c])

====
